---- MODULE Spec2Model ----
(***************************************************************************)
(* A model of the Telegram password bot: the sliding-window RateLimiter    *)
(* (src/src/bot.rs), the request handlers that run it under the shared     *)
(* tokio Mutex, and the password generator (src/src/password.rs).          *)
(*                                                                         *)
(* Time is the monotonic clock read by Instant::now(), in whole seconds.   *)
(* A string is a sequence of one-character strings.                        *)
(***************************************************************************)
EXTENDS Integers, Sequences, FiniteSets, TLC

(***************************************************************************)
(* Bounds of the model.                                                    *)
(***************************************************************************)
\* the limiter's clock advances in steps of Window \div TicksPerWindow seconds
TicksPerWindow == 3
\* the limiter's clock stops advancing after MaxTicks steps
MaxTicks == 5
\* the limiter is run with every limit in 0..MaxLimit
MaxLimit == 3
\* the generator is exercised on lengths 0..MaxLen
MaxLen == 5
\* the parser is exercised on up to MaxTokens tokens
MaxTokens == 3
\* the strength estimate is exercised on lengths 0..MaxStrengthLen
MaxStrengthLen == 20
\* the raw words the random source yields
RngWords == {0, 1}
RngScale == Cardinality(RngWords)

(***************************************************************************)
(* State.                                                                  *)
(***************************************************************************)
VARIABLES
    clock,      \* Instant::now()
    config,     \* BotState.config
    requests,   \* RateLimiter.requests: chat id -> timestamps
    lock,       \* BotState.rate_limiter's Mutex: the slot holding it, or NoHolder
    task,       \* the handler running in each slot
    admitted,   \* monitor: per key, the `now` of the calls that returned Ok
                \* less than a minute ago
    called,     \* monitor: the keys ever passed to check_rate_limit
    delivered,  \* monitor: per chat, when each password message of the last
                \* minute was sent
    call,       \* monitor: the last call of check_rate_limit made directly
    gen,        \* the generator run on its own: config, random words, result
    environment, \* the environment variables the process was started with
    parse       \* parse_password_args run on its own: tokens typed, result

(***************************************************************************)
(* Generic helpers on sequences.                                           *)
(***************************************************************************)
Range(s) == {s[i] : i \in 1..Len(s)}

\* a swap that overwrites position i and leaves position j as it was
SwapClobber(s, i, j) == [s EXCEPT ![i] = s[j]]

Swap(s, i, j) == [s EXCEPT ![i] = s[j], ![j] = s[i]]

(***************************************************************************)
(* password.rs: the alphabets and PasswordConfig.                          *)
(***************************************************************************)
lowercase == <<"a","b","c","d","e","f","g","h","i","j","k","l","m",
               "n","o","p","q","r","s","t","u","v","w","x","y","z">>
uppercase == <<"A","B","C","D","E","F","G","H","I","J","K","L","M",
               "N","O","P","Q","R","S","T","U","V","W","X","Y","Z">>
digits == <<"0","1","2","3","4","5","6","7","8","9">>
symbols == <<"!","@","#","$","%","^","&","*","(",")","-","_",
             "=","+","[","]","{","}",";",":",",",".","?","/">>
ambiguous == {"0", "O", "o", "1", "l", "I"}

\* PasswordConfig::default()
DefaultLength == 16
PasswordConfigDefault ==
    [length |-> DefaultLength, use_lowercase |-> TRUE, use_uppercase |-> TRUE,
     use_digits |-> TRUE, use_symbols |-> TRUE, exclude_ambiguous |-> FALSE]

Ok(v) == [ok |-> TRUE, val |-> v]
Err(kind, msg) == [ok |-> FALSE, kind |-> kind, msg |-> msg]

\* a validate that tests the classes before the length
validate_classes_first(cfg) ==
    IF ~cfg.use_lowercase /\ ~cfg.use_uppercase
       /\ ~cfg.use_digits /\ ~cfg.use_symbols
    THEN Err("PasswordGeneration", "At least one character type must be enabled")
    ELSE IF cfg.length = 0
    THEN Err("PasswordGeneration", "Password length must be greater than 0")
    ELSE Ok(<<>>)

\* PasswordConfig::validate
validate(cfg) ==
    IF cfg.length = 0
    THEN Err("PasswordGeneration", "Password length must be greater than 0")
    ELSE IF ~cfg.use_lowercase /\ ~cfg.use_uppercase
            /\ ~cfg.use_digits /\ ~cfg.use_symbols
    THEN Err("PasswordGeneration", "At least one character type must be enabled")
    ELSE Ok(<<>>)

\* a filter closure that keeps every character
KeepEveryChar(cfg, c) == TRUE

\* a filter closure that drops every character once exclude_ambiguous is set
KeepNoChar(cfg, c) == ~cfg.exclude_ambiguous

\* the filter closure |c| !self.exclude_ambiguous || !ambiguous.contains(c)
KeepChar(cfg, c) == ~cfg.exclude_ambiguous \/ c \notin ambiguous

Filtered(cfg, alphabet) == SelectSeq(alphabet, LAMBDA c : KeepChar(cfg, c))

\* a build_char_pool that extends the pool with the symbols first
build_char_pool_symbols_first(cfg) ==
    (IF cfg.use_symbols THEN symbols ELSE <<>>)
    \o (IF cfg.use_lowercase THEN Filtered(cfg, lowercase) ELSE <<>>)
    \o (IF cfg.use_uppercase THEN Filtered(cfg, uppercase) ELSE <<>>)
    \o (IF cfg.use_digits THEN Filtered(cfg, digits) ELSE <<>>)

\* PasswordConfig::build_char_pool
build_char_pool(cfg) ==
    (IF cfg.use_lowercase THEN Filtered(cfg, lowercase) ELSE <<>>)
    \o (IF cfg.use_uppercase THEN Filtered(cfg, uppercase) ELSE <<>>)
    \o (IF cfg.use_digits THEN Filtered(cfg, digits) ELSE <<>>)
    \o (IF cfg.use_symbols THEN symbols ELSE <<>>)

\* a class pushed whether or not it is enabled
RequiredGroupAlways(enabled, chars) == <<chars>>

\* one class of required_chars: pushed only when enabled and non-empty
RequiredGroup(enabled, chars) ==
    IF enabled /\ chars # <<>> THEN <<chars>> ELSE <<>>

\* a required_chars that leaves the ambiguous characters in its groups
required_chars_unfiltered(cfg) ==
    RequiredGroup(cfg.use_lowercase, lowercase)
    \o RequiredGroup(cfg.use_uppercase, uppercase)
    \o RequiredGroup(cfg.use_digits, digits)
    \o (IF cfg.use_symbols THEN <<symbols>> ELSE <<>>)

\* a required_chars that returns no group
required_chars_none(cfg) == <<>>

\* PasswordConfig::required_chars
required_chars(cfg) ==
    RequiredGroup(cfg.use_lowercase, Filtered(cfg, lowercase))
    \o RequiredGroup(cfg.use_uppercase, Filtered(cfg, uppercase))
    \o RequiredGroup(cfg.use_digits, Filtered(cfg, digits))
    \o (IF cfg.use_symbols THEN <<symbols>> ELSE <<>>)

(***************************************************************************)
(* The random source.  rng is the sequence of raw words the source will    *)
(* yield; gen_range(0..n) maps the next word w to w * n \div RngScale, the *)
(* widening-multiply sampling of the rand crate, so that every word gives  *)
(* an index in 0..n-1.  Indices are 1-based in the model.                  *)
(***************************************************************************)
gen_range(w, n) == ((w * n) \div RngScale) + 1

\* a first loop that draws every character from the first group
DrawRequiredFirstGroup(groups, rng) ==
    [k \in 1..Len(groups) |-> groups[1][gen_range(rng[k], Len(groups[1]))]]

\* the first loop of generate_password: one draw per required group
RECURSIVE DrawRequired(_, _)
DrawRequired(groups, rng) ==
    IF groups = <<>> THEN <<>>
    ELSE <<Head(groups)[gen_range(Head(rng), Len(Head(groups)))]>>
         \o DrawRequired(Tail(groups), Tail(rng))

\* a second loop that never runs
FillCountNone(length, required_count) == 0

\* the iterations of the second loop: required_count..config.length
FillCount(length, required_count) ==
    IF length > required_count THEN length - required_count ELSE 0

\* the second loop of generate_password: draws from the full pool
RECURSIVE DrawFill(_, _, _)
DrawFill(pool, n, rng) ==
    IF n = 0 THEN <<>>
    ELSE <<pool[gen_range(Head(rng), Len(pool))]>> \o DrawFill(pool, n - 1, Tail(rng))

\* a shuffle that leaves the buffer as it was filled
SwapDownNone(s, i, js) == s

\* the swaps of SliceRandom::shuffle, for i in (1..len).rev() { swap(i, j) },
\* given the index j that gen_range(0..i+1) returned at each step
RECURSIVE SwapDown(_, _, _)
SwapDown(s, i, js) ==
    IF i < 2 THEN s
    ELSE SwapDown(Swap(s, i, Head(js)), i - 1, Tail(js))

\* the indices gen_range(0..i+1) returns to the shuffle of i elements
RECURSIVE ShuffleIndices(_, _)
ShuffleIndices(i, rng) ==
    IF i < 2 THEN <<>>
    ELSE <<gen_range(Head(rng), i)>> \o ShuffleIndices(i - 1, Tail(rng))

\* SliceRandom::shuffle: for i in (1..len).rev() { swap(i, gen_range(0..i+1)) }
shuffle(s, i, rng) == SwapDown(s, i, ShuffleIndices(i, rng))

\* the words a generation of this length can consume
RngNeed(length) == IF length = 0 THEN 0 ELSE 2 * length - 1

\* the buffer password_chars of generate_password as the two loops leave it,
\* before the shuffle
password_chars(cfg, rng) ==
    LET required_groups == required_chars(cfg)
        required_count == Len(required_groups)
    IN DrawRequired(required_groups, rng)
       \o DrawFill(build_char_pool(cfg), FillCount(cfg.length, required_count),
                   SubSeq(rng, required_count + 1, Len(rng)))

\* generate_password, with the number of words it took from the random source
generate_password_run(cfg, rng) ==
    IF ~validate(cfg).ok THEN [result |-> validate(cfg), draws |-> 0]
    ELSE LET char_pool == build_char_pool(cfg)
             required_groups == required_chars(cfg)
             required_count == Len(required_groups)
         IN IF char_pool = <<>>
            THEN [result |-> Err("PasswordGeneration", "Character pool is empty"),
                  draws |-> 0]
            ELSE IF cfg.length < required_count
            THEN [result |-> Err("PasswordGeneration",
                                 "too short for the required character types"),
                  draws |-> 0]
            ELSE LET buffer == password_chars(cfg, rng)
                 IN [result |-> Ok(shuffle(buffer, Len(buffer),
                                           SubSeq(rng, Len(buffer) + 1, Len(rng)))),
                     draws |-> Len(buffer)
                               + (IF buffer = <<>> THEN 0 ELSE Len(buffer) - 1)]

\* generate_password
generate_password(cfg, rng) == generate_password_run(cfg, rng).result

(***************************************************************************)
(* password.rs: estimate_strength and format_metadata.  The entropy        *)
(* length * log2(pool_size) is compared with 50 and 80 and printed; the    *)
(* model carries its integer part, floor(log2(pool_size ^ length)), which  *)
(* is below an integer threshold exactly when the entropy is.  The power   *)
(* is computed on little-endian sequences of LimbBits-bit limbs.           *)
(***************************************************************************)
LimbBits == 10
LimbBase == 2 ^ LimbBits

\* x * m + carry, for a small m
RECURSIVE MulSmall(_, _, _)
MulSmall(x, m, carry) ==
    IF x = <<>>
    THEN IF carry = 0 THEN <<>>
         ELSE <<carry % LimbBase>> \o MulSmall(<<>>, m, carry \div LimbBase)
    ELSE LET t == Head(x) * m + carry
         IN <<t % LimbBase>> \o MulSmall(Tail(x), m, t \div LimbBase)

\* p ^ n
RECURSIVE Pow(_, _)
Pow(p, n) == IF n = 0 THEN <<1>> ELSE MulSmall(Pow(p, n - 1), p, 0)

RECURSIVE BitLen(_)
BitLen(n) == IF n = 0 THEN 0 ELSE 1 + BitLen(n \div 2)

\* floor(log2(x)) of a positive x
Log2Floor(x) == LimbBits * (Len(x) - 1) + BitLen(x[Len(x)]) - 1

\* (config.length as f64) * (pool_size as f64).log2(), integer part
entropy(length, pool_size) == Log2Floor(Pow(pool_size, length))

\* an if-chain with the first threshold inclusive
classify_inclusive(e) ==
    IF e <= 50 THEN "Weak" ELSE IF e < 80 THEN "Medium" ELSE "Strong"

\* the if-chain of estimate_strength
classify(e) ==
    IF e < 50 THEN "Weak" ELSE IF e < 80 THEN "Medium" ELSE "Strong"

\* an estimate taken from the generated password instead of the config
estimate_strength_of_secret(cfg) ==
    IF gen.result.ok /\ gen.result.val # <<>>
    THEN classify(entropy(Len(gen.result.val),
                          IF gen.result.val[1] \in Range(lowercase)
                          THEN Len(lowercase) ELSE Len(build_char_pool(cfg))))
    ELSE "Weak"

\* estimate_strength
estimate_strength(cfg) ==
    LET pool_size == Len(build_char_pool(cfg))
    IN IF pool_size = 0 THEN "Weak"
       ELSE classify(entropy(cfg.length, pool_size))

\* PasswordStrength::as_str: the label of each variant
as_str(strength) ==
    CASE strength = "Weak" -> "Weak"
      [] strength = "Medium" -> "Medium"
      [] strength = "Strong" -> "Strong"

\* char_types of format_metadata
char_types(cfg) ==
    (IF cfg.use_lowercase THEN <<"lowercase">> ELSE <<>>)
    \o (IF cfg.use_uppercase THEN <<"uppercase">> ELSE <<>>)
    \o (IF cfg.use_digits THEN <<"digits">> ELSE <<>>)
    \o (IF cfg.use_symbols THEN <<"symbols">> ELSE <<>>)

\* format_metadata: the fields of the formatted line, the entropy in whole bits
\* (log2(0) of an empty pool is not a number of bits)
format_metadata(cfg, strength) ==
    LET pool_size == Len(build_char_pool(cfg))
    IN [length |-> cfg.length,
        types |-> char_types(cfg),
        pool_size |-> pool_size,
        entropy |-> IF pool_size = 0 THEN -1 ELSE entropy(cfg.length, pool_size),
        strength |-> as_str(strength)]

(***************************************************************************)
(* Text: str::split_whitespace, starts_with, replace, trim, parse::<usize>.*)
(***************************************************************************)
IsSpace(c) == c = " "

\* the first token of s (s starts with a non-space)
RECURSIVE TakeWord(_)
TakeWord(s) ==
    IF s = <<>> \/ IsSpace(Head(s)) THEN <<>> ELSE <<Head(s)>> \o TakeWord(Tail(s))

RECURSIVE split_whitespace(_)
split_whitespace(s) ==
    IF s = <<>> THEN <<>>
    ELSE IF IsSpace(Head(s)) THEN split_whitespace(Tail(s))
    ELSE LET w == TakeWord(s)
         IN <<w>> \o split_whitespace(SubSeq(s, Len(w) + 1, Len(s)))

starts_with(s, prefix) ==
    Len(s) >= Len(prefix) /\ SubSeq(s, 1, Len(prefix)) = prefix

\* str::replace(pat, ""): every non-overlapping occurrence, left to right
RECURSIVE RemoveAll(_, _)
RemoveAll(s, pat) ==
    IF s = <<>> THEN <<>>
    ELSE IF starts_with(s, pat) THEN RemoveAll(SubSeq(s, Len(pat) + 1, Len(s)), pat)
    ELSE <<Head(s)>> \o RemoveAll(Tail(s), pat)

RECURSIVE TrimStart(_)
TrimStart(s) == IF s # <<>> /\ IsSpace(Head(s)) THEN TrimStart(Tail(s)) ELSE s

RECURSIVE TrimEnd(_)
TrimEnd(s) ==
    IF s # <<>> /\ IsSpace(s[Len(s)]) THEN TrimEnd(SubSeq(s, 1, Len(s) - 1)) ELSE s

trim(s) == TrimEnd(TrimStart(s))

DigitChars == <<"0","1","2","3","4","5","6","7","8","9">>
IsDigit(c) == c \in Range(DigitChars)
DigitValue(c) == (CHOOSE i \in 1..10 : DigitChars[i] = c) - 1

RECURSIVE DigitsValue(_, _)
DigitsValue(s, acc) ==
    IF s = <<>> THEN acc ELSE DigitsValue(Tail(s), 10 * acc + DigitValue(Head(s)))

\* the longest digit string the model evaluates (values stay far below
\* usize::MAX, where parse::<usize> reports an overflow instead)
MaxDigits == 6

\* str::parse::<usize>: an optional '+', then one or more decimal digits
parse_usize(s) ==
    LET ds == IF s # <<>> /\ Head(s) = "+" THEN Tail(s) ELSE s
    IN IF ds = <<>> \/ Len(ds) > MaxDigits \/ \E i \in 1..Len(ds) : ~IsDigit(ds[i])
       THEN Err("ParseInt", "invalid digit")
       ELSE Ok(DigitsValue(ds, 0))

\* usize::to_string, as env values are written
RECURSIVE to_string(_)
to_string(n) ==
    IF n < 10 THEN <<DigitChars[n + 1]>>
    ELSE to_string(n \div 10) \o <<DigitChars[(n % 10) + 1]>>

(***************************************************************************)
(* bot.rs: parse_password_args.                                            *)
(***************************************************************************)
opt_symbols == <<"-","-","s","y","m","b","o","l","s">>
opt_no_symbols == <<"-","-","n","o","-","s","y","m","b","o","l","s">>
opt_digits == <<"-","-","d","i","g","i","t","s">>
opt_no_digits == <<"-","-","n","o","-","d","i","g","i","t","s">>
opt_uppercase == <<"-","-","u","p","p","e","r","c","a","s","e">>
opt_no_uppercase == <<"-","-","n","o","-","u","p","p","e","r","c","a","s","e">>
opt_lowercase == <<"-","-","l","o","w","e","r","c","a","s","e">>
opt_no_lowercase == <<"-","-","n","o","-","l","o","w","e","r","c","a","s","e">>
opt_no_ambiguous == <<"-","-","n","o","-","a","m","b","i","g","u","o","u","s">>

\* one iteration of the loop over parts: the config after `part`, or the error
ParsePart(cfg, part) ==
    IF starts_with(part, <<"-", "-">>)
    THEN CASE part = opt_symbols -> Ok([cfg EXCEPT !.use_symbols = TRUE])
           [] part = opt_no_symbols -> Ok([cfg EXCEPT !.use_symbols = FALSE])
           [] part = opt_digits -> Ok([cfg EXCEPT !.use_digits = TRUE])
           [] part = opt_no_digits -> Ok([cfg EXCEPT !.use_digits = FALSE])
           [] part = opt_uppercase -> Ok([cfg EXCEPT !.use_uppercase = TRUE])
           [] part = opt_no_uppercase -> Ok([cfg EXCEPT !.use_uppercase = FALSE])
           [] part = opt_lowercase -> Ok([cfg EXCEPT !.use_lowercase = TRUE])
           [] part = opt_no_lowercase -> Ok([cfg EXCEPT !.use_lowercase = FALSE])
           [] part = opt_no_ambiguous -> Ok([cfg EXCEPT !.exclude_ambiguous = TRUE])
           [] OTHER -> Err("PasswordGeneration", <<"Unknown option: ", part>>)
    ELSE IF parse_usize(part).ok
         THEN Ok([cfg EXCEPT !.length = parse_usize(part).val])
         ELSE Err("PasswordGeneration", <<"Invalid length: ", part>>)

\* a loop that skips a part it cannot parse and goes on
RECURSIVE ParsePartsLenient(_, _)
ParsePartsLenient(cfg, parts) ==
    IF parts = <<>> THEN Ok(cfg)
    ELSE LET r == ParsePart(cfg, Head(parts))
         IN ParsePartsLenient(IF r.ok THEN r.val ELSE cfg, Tail(parts))

\* the loop over parts: the first error is returned
RECURSIVE ParseParts(_, _)
ParseParts(cfg, parts) ==
    IF parts = <<>> THEN Ok(cfg)
    ELSE LET r == ParsePart(cfg, Head(parts))
         IN IF r.ok THEN ParseParts(r.val, Tail(parts)) ELSE r

parse_password_args(args, default_length) ==
    ParseParts([PasswordConfigDefault EXCEPT !.length = default_length],
               split_whitespace(args))

(***************************************************************************)
(* config.rs: Config::from_env.  An environment gives each variable a      *)
(* string, or Unset.                                                       *)
(***************************************************************************)
Unset == <<"<unset>">>

\* env::var(..).ok().and_then(|s| s.parse::<usize>().ok()).unwrap_or(default)
EnvUsize(v, default) ==
    IF v = Unset THEN default
    ELSE IF parse_usize(v).ok THEN parse_usize(v).val ELSE default

DefaultPasswordLength == 16
DefaultMaxPasswordLength == 64
DefaultMinPasswordLength == 8
DefaultRateLimit == 10

\* a range test that forgets the lower end
DefaultOutOfRangeAbove(default, min, max) == default > max

\* default_password_length < min_password_length
\*    || default_password_length > max_password_length
DefaultOutOfRange(default, min, max) == default < min \/ default > max

\* Config::from_env
from_env(env) ==
    IF env.TELEGRAM_BOT_TOKEN = Unset
    THEN Err("Config", "TELEGRAM_BOT_TOKEN environment variable is required")
    ELSE IF env.TELEGRAM_BOT_TOKEN = <<>>
    THEN Err("Config", "TELEGRAM_BOT_TOKEN cannot be empty")
    ELSE LET default_password_length ==
                 EnvUsize(env.DEFAULT_PASSWORD_LENGTH, DefaultPasswordLength)
             max_password_length ==
                 EnvUsize(env.MAX_PASSWORD_LENGTH, DefaultMaxPasswordLength)
             min_password_length ==
                 EnvUsize(env.MIN_PASSWORD_LENGTH, DefaultMinPasswordLength)
             rate_limit_per_minute ==
                 EnvUsize(env.RATE_LIMIT_PER_MINUTE, DefaultRateLimit)
         IN IF min_password_length = 0
            THEN Err("Config", "MIN_PASSWORD_LENGTH must be greater than 0")
            ELSE IF max_password_length < min_password_length
            THEN Err("Config", "MAX_PASSWORD_LENGTH must be >= MIN_PASSWORD_LENGTH")
            ELSE IF DefaultOutOfRange(default_password_length, min_password_length,
                                      max_password_length)
            THEN Err("Config", "DEFAULT_PASSWORD_LENGTH out of range")
            ELSE Ok([bot_token |-> env.TELEGRAM_BOT_TOKEN,
                     default_password_length |-> default_password_length,
                     max_password_length |-> max_password_length,
                     min_password_length |-> min_password_length,
                     rate_limit_per_minute |-> rate_limit_per_minute])

(***************************************************************************)
(* bot.rs: RateLimiter.                                                    *)
(***************************************************************************)
\* Duration::from_secs(60)
Window == 60

one_minute_ago(t) == t - Window

\* self.requests.entry(chat_id).or_insert_with(Vec::new)
entry_or_insert(reqs, k) ==
    IF k \in DOMAIN reqs THEN reqs ELSE reqs @@ (k :> <<>>)

\* a retain that keeps every timestamp
retain_everything(ts, cutoff) == ts

\* requests.retain(|&timestamp| timestamp > one_minute_ago)
retain(ts, cutoff) == SelectSeq(ts, LAMBDA t : t > cutoff)

\* a prune that runs the retain on the vector of every key
PrunedEveryKey(reqs, k, t) ==
    [j \in DOMAIN entry_or_insert(reqs, k) |->
        SelectSeq(entry_or_insert(reqs, k)[j], LAMBDA x : x > one_minute_ago(t))]

\* check_rate_limit up to the retain: the map after the prune
Pruned(reqs, k, t) ==
    [entry_or_insert(reqs, k) EXCEPT ![k] = retain(@, one_minute_ago(t))]

\* a test that lets one request too many through
limit_exceeded_off_by_one(len, limit) == len > limit

\* if requests.len() >= limit
limit_exceeded(len, limit) == len >= limit

\* a push at the front of the vector
PushedFront(reqs, k, t) == [reqs EXCEPT ![k] = <<t>> \o @]

\* requests.push(now)
Pushed(reqs, k, t) == [reqs EXCEPT ![k] = Append(@, t)]

\* a check_rate_limit that pushes `now` before it tests the length
check_rate_limit_recording(reqs, k, limit, t) ==
    LET pruned == Pruned(reqs, k, t)
    IN [requests |-> Pushed(pruned, k, t),
        result |-> IF limit_exceeded(Len(pruned[k]), limit) THEN "Err" ELSE "Ok"]

\* a check_rate_limit that drops the entry of a key left without timestamps
check_rate_limit_evicting(reqs, k, limit, t) ==
    LET pruned == Pruned(reqs, k, t)
    IN IF limit_exceeded(Len(pruned[k]), limit)
       THEN [requests |-> IF pruned[k] = <<>>
                          THEN [j \in DOMAIN pruned \ {k} |-> pruned[j]]
                          ELSE pruned,
             result |-> "Err"]
       ELSE [requests |-> Pushed(pruned, k, t), result |-> "Ok"]

\* check_rate_limit(chat_id, limit) called at instant t: the map it leaves and
\* the Result it returns
check_rate_limit(reqs, k, limit, t) ==
    LET pruned == Pruned(reqs, k, t)
    IN IF limit_exceeded(Len(pruned[k]), limit)
       THEN [requests |-> pruned, result |-> "Err"]
       ELSE [requests |-> Pushed(pruned, k, t), result |-> "Ok"]

(***************************************************************************)
(* The environment of the bot: chats, callback data, command arguments.    *)
(***************************************************************************)
\* a private chat has the id of its user; a group has an id of its own
UserIds == {7}
GroupIds == {-100}
ChatIds == UserIds \cup GroupIds

NoData == <<"<none>">>
cmd_pass == <<"/","p","a","s","s">>
msg_pass_24 == <<"/","p","a","s","s"," ","2","4">>
msg_pass_32 == <<"/","p","a","s","s"," ","3","2">>
msg_pass_no_symbols ==
    <<"/","p","a","s","s"," ","1","6"," ","-","-","n","o","-","s","y","m","b","o","l","s">>
msg_pass_no_ambiguous ==
    <<"/","p","a","s","s"," ","1","8"," ","-","-","n","o","-","a","m","b","i","g","u","o","u","s">>

\* the buttons that generate: callback data -> the command text it stands for
PassButtons == {"pass_default", "pass_24", "pass_32", "pass_no_symbols", "pass_no_ambiguous"}
ButtonMessage(data) ==
    CASE data = "pass_default" -> cmd_pass
      [] data = "pass_24" -> msg_pass_24
      [] data = "pass_32" -> msg_pass_32
      [] data = "pass_no_symbols" -> msg_pass_no_symbols
      [] data = "pass_no_ambiguous" -> msg_pass_no_ambiguous

\* the callback data the model sends: two generating buttons, the two other
\* buttons, an unknown string, and no data
CallbackData == {"pass_default", "pass_24", "pass_custom", "show_help", "bogus", NoData}

args_zero == <<"0">>
args_three == <<"3">>
args_too_long == <<"9","9">>
args_bogus == <<"-","-","b","o","g","u","s">>
args_no_class ==
    <<"-","-","n","o","-","l","o","w","e","r","c","a","s","e"," ",
      "-","-","n","o","-","u","p","p","e","r","c","a","s","e"," ",
      "-","-","n","o","-","d","i","g","i","t","s"," ",
      "-","-","n","o","-","s","y","m","b","o","l","s">>

\* the /pass commands the model sends: every argument string in the private
\* chat, the bare command in the group
PassArgs == {<<>>, args_zero, args_three, args_too_long, args_bogus, args_no_class}
PassCommands ==
    {[chat |-> u, args |-> a] : u \in UserIds, a \in PassArgs}
    \cup {[chat |-> g, args |-> <<>>] : g \in GroupIds}

\* the environments the bot is started in
TokenValue == <<"t">>
SmallLengths == [min |-> <<"1">>, def |-> <<"4">>, max |-> <<"5">>]
Env(le, l) ==
    [TELEGRAM_BOT_TOKEN |-> TokenValue,
     DEFAULT_PASSWORD_LENGTH |-> le.def,
     MAX_PASSWORD_LENGTH |-> le.max,
     MIN_PASSWORD_LENGTH |-> le.min,
     RATE_LIMIT_PER_MINUTE |-> to_string(l)]
BotLimits == {0, 1}
BotEnvs == {Env(SmallLengths, l) : l \in BotLimits}
LimiterEnvs == {Env(SmallLengths, l) : l \in 0..MaxLimit}

vars == <<clock, config, requests, lock, task, admitted, called, delivered, call, gen,
          environment, parse>>

\* requests handled concurrently
Slots == {1, 2}
NoHolder == 0

Idle == [pc |-> "idle", kind |-> "none", key |-> 0, chat |-> 0, text |-> <<>>, now |-> 0,
         result |-> "none", parsed |-> FALSE, generated |-> FALSE, out |-> <<>>,
         log |-> <<>>, length |-> <<>>]

NoCall == [key |-> 0, now |-> 0, result |-> "none", before |-> <<>>, recent |-> 0,
           prev |-> [k \in ChatIds |-> "none"]]
NoParse == [pc |-> "none", tokens |-> <<>>, default_length |-> 0,
            result |-> Err("none", "none")]
NoGen == [pc |-> "none", cfg |-> PasswordConfigDefault, rng |-> <<>>,
          result |-> Err("none", "none"), draws |-> 0, strength |-> <<>>]

\* the dispatcher starts a handler in a free slot; slots are interchangeable, so
\* the model takes the lowest one
FreeSlot(t, h) == t[h].pc = "idle" /\ \A g \in Slots : g < h => t[g].pc # "idle"

\* bot.send_message(chat, ..)
Message(chat, kind, text) == [via |-> "send_message", to |-> chat, kind |-> kind, text |-> text]
\* bot.answer_callback_query(&q.id).text(..)
Toast(user, kind, text) == [via |-> "answer_callback_query", to |-> user, kind |-> kind, text |-> text]

HasPassword(out) == \E i \in 1..Len(out) : out[i].kind = "password"

\* the words the random source yields to one handler: one word repeated
BotRng(conf) ==
    {[i \in 1..RngNeed(conf.max_password_length) |-> w] : w \in RngWords}

\* a lock that is handed out while a guard is alive
LockNeverHeld(l) == TRUE

\* tokio Mutex: lock().await completes only when no guard is alive
LockFree(l) == l = NoHolder

\* the instants of ts in the minute that ends at t: t - Window < x <= t
InWindow(ts, t) == SelectSeq(ts, LAMBDA x : t - Window < x /\ x <= t)

\* the deliveries of ds sent in the minute that ends at t
SentInWindow(ds, t) == SelectSeq(ds, LAMBDA d : t - Window < d.sent /\ d.sent <= t)

(***************************************************************************)
(* handle_password after admission (lines 238-321) and handle_callback     *)
(* after admission (lines 425-489): the messages the handler will send.    *)
(***************************************************************************)
\* let strength_emoji = match strength { .. }
strength_emoji(strength) ==
    CASE strength = "Strong" -> "flexed biceps"
      [] strength = "Medium" -> "thumbs up"
      [] strength = "Weak" -> "warning"

\* a reply whose log line carries the password
ReplyLoggingSecret(kind, chat, password, cfg) ==
    LET strength == estimate_strength(cfg)
        metadata == format_metadata(cfg, strength)
        response == [password |-> password, emoji |-> strength_emoji(strength),
                     metadata |-> metadata]
    IN [out |-> IF kind = "pass" THEN <<Message(chat, "password", response)>>
                ELSE <<Toast(chat, "ack", <<>>), Message(chat, "password", response)>>,
        log |-> <<[level |-> "info", path |-> kind, chat |-> chat,
                   metadata |-> metadata, password |-> password]>>]

\* handle_password lines 296-319 and handle_callback lines 468-489: the
\* strength, the metadata, the response that is sent and, after the sends, the
\* line that is logged
Reply(kind, chat, password, cfg) ==
    LET strength == estimate_strength(cfg)
        metadata == format_metadata(cfg, strength)
        response == [password |-> password, emoji |-> strength_emoji(strength),
                     metadata |-> metadata]
    IN [out |-> IF kind = "pass" THEN <<Message(chat, "password", response)>>
                ELSE <<Toast(chat, "ack", <<>>), Message(chat, "password", response)>>,
        log |-> <<[level |-> "info", path |-> kind, chat |-> chat,
                   metadata |-> metadata]>>]

\* a lower bound that is never tested
LengthBelowMinNever(conf, length) == FALSE

\* password_config.length < state.config.min_password_length
LengthBelowMin(conf, length) == length < conf.min_password_length

\* password_config.length > state.config.max_password_length
LengthAboveMax(conf, length) == length > conf.max_password_length

ProcessPassword(conf, chat, args, rng) ==
    LET p == parse_password_args(args, conf.default_password_length)
    IN IF ~p.ok
       THEN [parsed |-> TRUE, length |-> <<>>, generated |-> FALSE, log |-> <<>>,
             out |-> <<Message(chat, "parse_error", p.msg)>>]
       ELSE IF LengthBelowMin(conf, p.val.length)
       THEN [parsed |-> TRUE, length |-> <<p.val.length>>, generated |-> FALSE,
             log |-> <<>>,
             out |-> <<Message(chat, "too_short", conf.min_password_length)>>]
       ELSE IF LengthAboveMax(conf, p.val.length)
       THEN [parsed |-> TRUE, length |-> <<p.val.length>>, generated |-> FALSE,
             log |-> <<>>,
             out |-> <<Message(chat, "too_long", conf.max_password_length)>>]
       ELSE IF ~validate(p.val).ok
       THEN [parsed |-> TRUE, length |-> <<p.val.length>>, generated |-> FALSE,
             log |-> <<>>,
             out |-> <<Message(chat, "config_error", validate(p.val).msg)>>]
       ELSE LET g == generate_password(p.val, rng)
            IN IF ~g.ok
               THEN [parsed |-> TRUE, length |-> <<p.val.length>>, generated |-> TRUE,
                     log |-> <<>>,
                     out |-> <<Message(chat, "generate_error", g.msg)>>]
               ELSE [parsed |-> TRUE, length |-> <<p.val.length>>, generated |-> TRUE,
                     out |-> Reply("pass", chat, g.val, p.val).out,
                     log |-> Reply("pass", chat, g.val, p.val).log]

ProcessCallback(conf, user, message, rng) ==
    LET p == parse_password_args(trim(RemoveAll(message, cmd_pass)),
                                 conf.default_password_length)
    IN IF ~p.ok
       THEN [parsed |-> TRUE, length |-> <<>>, generated |-> FALSE, log |-> <<>>,
             out |-> <<Toast(user, "parse_error", p.msg)>>]
       ELSE IF LengthBelowMin(conf, p.val.length)
               \/ LengthAboveMax(conf, p.val.length)
       THEN [parsed |-> TRUE, length |-> <<p.val.length>>, generated |-> FALSE,
             log |-> <<>>,
             out |-> <<Toast(user, "invalid_length", <<>>)>>]
       ELSE IF ~validate(p.val).ok
       THEN [parsed |-> TRUE, length |-> <<p.val.length>>, generated |-> FALSE,
             log |-> <<>>,
             out |-> <<Toast(user, "config_error", validate(p.val).msg)>>]
       ELSE LET g == generate_password(p.val, rng)
            IN IF ~g.ok
               THEN [parsed |-> TRUE, length |-> <<p.val.length>>, generated |-> TRUE,
                     log |-> <<>>,
                     out |-> <<Toast(user, "generate_error", g.msg)>>]
               ELSE [parsed |-> TRUE, length |-> <<p.val.length>>, generated |-> TRUE,
                     out |-> Reply("callback", user, g.val, p.val).out,
                     log |-> Reply("callback", user, g.val, p.val).log]

Process(conf, kind, chat, text, rng) ==
    IF kind = "pass" THEN ProcessPassword(conf, chat, text, rng)
    ELSE ProcessCallback(conf, chat, text, rng)

\* an Err branch that does not return: the handler goes on as if admitted
OnRateLimitedFallThrough(conf, kind, chat, text, rng) ==
    Process(conf, kind, chat, text, rng)

\* the Err branch of `if let Err(e) = rate_limiter.check_rate_limit(..)`:
\* the reply is sent and the handler returns; nothing is parsed or generated
OnRateLimited(conf, kind, chat, text, rng) ==
    [parsed |-> FALSE, generated |-> FALSE, length |-> <<>>,
     out |-> IF kind = "pass"
             THEN <<Message(chat, "rate_limited", conf.rate_limit_per_minute)>>
             ELSE <<Toast(chat, "rate_limited", conf.rate_limit_per_minute)>>,
     log |-> IF kind = "pass"
             THEN <<[level |-> "warn", path |-> kind, chat |-> chat,
                     error |-> conf.rate_limit_per_minute]>>
             ELSE <<>>]

(***************************************************************************)
(* The bot.  One action is one synchronous stretch of a handler, from an   *)
(* .await that completes to the next one.                                  *)
(***************************************************************************)
InitWith(envs) ==
    /\ clock = 0
    /\ \E e \in envs : from_env(e).ok /\ environment = e /\ config = from_env(e).val
    /\ requests = <<>>
    /\ lock = NoHolder
    /\ task = [h \in Slots |-> Idle]
    /\ admitted = [k \in ChatIds |-> <<>>]
    /\ called = {}
    /\ delivered = [k \in ChatIds |-> <<>>]
    /\ call = NoCall
    /\ gen = NoGen
    /\ parse = NoParse

Init == InitWith(BotEnvs)

\* time passes: a minute
Tick ==
    /\ clock < 2 * Window
    /\ clock' = clock + Window
    /\ admitted' = [k \in ChatIds |-> InWindow(admitted[k], clock')]
    /\ delivered' = [k \in ChatIds |-> SentInWindow(delivered[k], clock')]
    /\ UNCHANGED <<config, requests, lock, task, called, call, gen, environment, parse>>

\* handle_start: the welcome message
handle_start(h, chat) ==
    /\ FreeSlot(task, h)
    /\ task' = [task EXCEPT ![h] = [Idle EXCEPT !.pc = "send", !.kind = "start", !.chat = chat,
                                        !.out = <<Message(chat, "welcome", <<>>)>>]]
    /\ UNCHANGED <<clock, config, requests, lock, admitted, called, delivered, call, gen,
                 environment, parse>>

\* a /help that goes through the rate limiter first
handle_help_limited(h, chat) ==
    LET r == check_rate_limit(requests, chat, config.rate_limit_per_minute, clock)
    IN /\ FreeSlot(task, h)
       /\ requests' = r.requests
       /\ task' = [task EXCEPT ![h] =
                      [Idle EXCEPT !.pc = "send", !.kind = "help", !.chat = chat,
                                   !.result = r.result,
                                   !.out = <<Message(chat, IF r.result = "Ok" THEN "help"
                                                           ELSE "rate_limited", <<>>)>>]]
       /\ UNCHANGED <<clock, config, lock, admitted, called, delivered, call, gen,
                      environment, parse>>

\* handle_help: the help message
handle_help(h, chat) ==
    /\ FreeSlot(task, h)
    /\ task' = [task EXCEPT ![h] = [Idle EXCEPT !.pc = "send", !.kind = "help", !.chat = chat,
                                        !.out = <<Message(chat, "help", <<>>)>>]]
    /\ UNCHANGED <<clock, config, requests, lock, admitted, called, delivered, call, gen,
                 environment, parse>>

\* handle_callback, lines 332-411: the buttons that generate nothing
handle_callback_other(h, user, data) ==
    /\ FreeSlot(task, h)
    /\ data \notin PassButtons
    /\ IF data = "pass_custom"
       THEN task' = [task EXCEPT ![h] = [Idle EXCEPT !.pc = "send", !.kind = "callback_other",
                        !.chat = user,
                        !.out = <<Toast(user, "ack", <<>>), Message(user, "prompt", <<>>)>>]]
       ELSE IF data = "show_help"
       THEN task' = [task EXCEPT ![h] = [Idle EXCEPT !.pc = "send", !.kind = "callback_other",
                        !.chat = user,
                        !.out = <<Toast(user, "ack", <<>>), Message(user, "help", <<>>)>>]]
       ELSE UNCHANGED task
    /\ UNCHANGED <<clock, config, requests, lock, admitted, called, delivered, call, gen,
                 environment, parse>>

\* handle_password lines 222-227 and handle_callback lines 414-417: the lock is
\* taken, and check_rate_limit runs up to its test of the length (lines 27-37).
\* On Err the reply is awaited with the guard still alive.
Check(h, kind, key, chat, text) ==
    /\ FreeSlot(task, h)
    /\ LockFree(lock)
    /\ lock' = h
    /\ called' = called \cup {key}
    /\ requests' = Pruned(requests, key, clock)
    /\ IF limit_exceeded(Len(requests'[key]), config.rate_limit_per_minute)
       THEN \E rng \in BotRng(config) :
               LET r == OnRateLimited(config, kind, chat, text, rng)
               IN task' = [task EXCEPT ![h] = [Idle EXCEPT !.pc = "send", !.kind = kind,
                              !.key = key, !.chat = chat, !.now = clock,
                              !.result = "Err", !.parsed = r.parsed,
                              !.generated = r.generated, !.out = r.out,
                              !.log = r.log, !.length = r.length]]
       ELSE task' = [task EXCEPT ![h] = [Idle EXCEPT !.pc = "push", !.kind = kind,
                        !.key = key, !.chat = chat, !.text = text, !.now = clock]]
    /\ UNCHANGED <<clock, config, admitted, delivered, call, gen, environment, parse>>

\* let chat_id = msg.chat.id.0: the key of the /pass path is the chat written to
PasswordKey(chat) == chat

\* a button path keyed by something else than the user written to
CallbackKeyElsewhere(user) == CHOOSE g \in GroupIds : TRUE

\* let chat_id = q.from.id: the key of the button path is the user written to
CallbackKey(user) == user

handle_password(h, chat, args) == Check(h, "pass", PasswordKey(chat), chat, args)

handle_callback(h, user, data) ==
    /\ data \in PassButtons
    /\ Check(h, "callback", CallbackKey(user), user, ButtonMessage(data))

\* a handler that records the request only once it has a password to send
AdmitAfterProcessing(h) ==
    /\ task[h].pc = "push"
    /\ lock' = NoHolder
    /\ \E rng \in BotRng(config) :
          LET r == Process(config, task[h].kind, task[h].chat, task[h].text, rng)
          IN /\ task' = [task EXCEPT ![h] = [@ EXCEPT !.pc = "send", !.result = "Ok",
                            !.text = <<>>, !.parsed = r.parsed,
                            !.generated = r.generated, !.out = r.out,
                            !.log = r.log, !.length = r.length]]
             /\ requests' = IF HasPassword(r.out)
                            THEN Pushed(requests, task[h].key, task[h].now)
                            ELSE requests
             /\ admitted' = IF HasPassword(r.out)
                            THEN [admitted EXCEPT ![task[h].key] =
                                     InWindow(Append(@, task[h].now), clock)]
                            ELSE admitted
    /\ UNCHANGED <<clock, config, called, delivered, call, gen, environment, parse>>

\* check_rate_limit lines 45-46, the guard dropped at the end of the block, and
\* the handler up to its first send
Admit(h) ==
    /\ task[h].pc = "push"
    /\ requests' = Pushed(requests, task[h].key, task[h].now)
    /\ admitted' = [admitted EXCEPT ![task[h].key] = InWindow(Append(@, task[h].now), clock)]
    /\ lock' = NoHolder
    /\ \E rng \in BotRng(config) :
          LET r == Process(config, task[h].kind, task[h].chat, task[h].text, rng)
          IN task' = [task EXCEPT ![h] = [@ EXCEPT !.pc = "send", !.result = "Ok",
                         !.text = <<>>, !.parsed = r.parsed,
                         !.generated = r.generated, !.out = r.out,
                         !.log = r.log, !.length = r.length]]
    /\ UNCHANGED <<clock, config, called, delivered, call, gen, environment, parse>>

\* a pending send completes: with an error the handler returns at the `?`;
\* a handler that returns drops the guard it may hold
Send(h, ok) ==
    /\ task[h].pc = "send"
    /\ LET m == Head(task[h].out)
           last == ~ok \/ Len(task[h].out) = 1
       IN /\ delivered' = IF ok /\ m.kind = "password"
                          THEN [delivered EXCEPT ![m.to] =
                                   Append(@, [sent |-> clock, admitted_at |-> task[h].now,
                                              path |-> task[h].kind])]
                          ELSE delivered
          /\ task' = [task EXCEPT ![h] =
                         IF last THEN Idle ELSE [@ EXCEPT !.out = Tail(@)]]
          /\ lock' = IF last /\ lock = h THEN NoHolder ELSE lock
    /\ UNCHANGED <<clock, config, requests, admitted, called, call, gen, environment, parse>>

Next ==
    \/ Tick
    \/ \E h \in Slots, chat \in ChatIds : handle_start(h, chat)
    \/ \E h \in Slots, chat \in ChatIds : handle_help(h, chat)
    \/ \E h \in Slots, cmd \in PassCommands : handle_password(h, cmd.chat, cmd.args)
    \/ \E h \in Slots, user \in UserIds, data \in CallbackData : handle_callback(h, user, data)
    \/ \E h \in Slots, user \in UserIds, data \in CallbackData : handle_callback_other(h, user, data)
    \/ \E h \in Slots : Admit(h)
    \/ \E h \in Slots, ok \in BOOLEAN : Send(h, ok)

Spec == Init /\ [][Next]_vars

(***************************************************************************)
(* The RateLimiter on its own: a sequence of check_rate_limit calls with   *)
(* one limit, under a finer clock.                                         *)
(***************************************************************************)
LimiterInit == InitWith(LimiterEnvs)

LimiterTick ==
    /\ clock < MaxTicks * (Window \div TicksPerWindow)
    /\ clock' = clock + (Window \div TicksPerWindow)
    /\ admitted' = [k \in ChatIds |-> InWindow(admitted[k], clock')]
    /\ UNCHANGED <<config, requests, lock, task, called, delivered, call, gen, environment, parse>>

LimiterCall(k) ==
    LET r == check_rate_limit(requests, k, config.rate_limit_per_minute, clock)
    IN /\ requests' = r.requests
       /\ call' = [key |-> k, now |-> clock, result |-> r.result,
                   before |-> IF k \in DOMAIN requests THEN requests[k] ELSE <<>>,
                   recent |-> Len(admitted[k]),
                   prev |-> IF call.result = "none" THEN call.prev
                            ELSE [call.prev EXCEPT ![call.key] = call.result]]
       /\ admitted' = IF r.result = "Ok"
                      THEN [admitted EXCEPT ![k] = Append(@, clock)]
                      ELSE admitted
       /\ called' = called \cup {k}
       /\ UNCHANGED <<clock, config, lock, task, delivered, gen, environment, parse>>

LimiterNext ==
    \/ LimiterTick
    \/ \E k \in ChatIds : LimiterCall(k)

SpecLimiter == LimiterInit /\ [][LimiterNext]_vars

(***************************************************************************)
(* The generator on its own: generate_password on every config of the      *)
(* bounded set, with every sequence of random words.                       *)
(***************************************************************************)
GenConfigs ==
    [length : 0..MaxLen, use_lowercase : BOOLEAN, use_uppercase : BOOLEAN,
     use_digits : BOOLEAN, use_symbols : BOOLEAN, exclude_ambiguous : BOOLEAN]

GenInit ==
    /\ clock = 0
    /\ environment = Env(SmallLengths, 1)
    /\ config = from_env(environment).val
    /\ parse = NoParse
    /\ requests = <<>>
    /\ lock = NoHolder
    /\ task = [h \in Slots |-> Idle]
    /\ admitted = [k \in ChatIds |-> <<>>]
    /\ called = {}
    /\ delivered = [k \in ChatIds |-> <<>>]
    /\ call = NoCall
    /\ \E cfg \in GenConfigs : gen = [NoGen EXCEPT !.pc = "start", !.cfg = cfg]

Generate ==
    /\ gen.pc = "start"
    /\ \E rng \in [1..RngNeed(gen.cfg.length) -> RngWords] :
          gen' = [gen EXCEPT !.pc = "done", !.rng = rng,
                             !.result = generate_password(gen.cfg, rng),
                             !.draws = generate_password_run(gen.cfg, rng).draws]
    /\ UNCHANGED <<clock, config, requests, lock, task, admitted, called, delivered, call,
                 environment, parse>>

GenNext == Generate

SpecGen == GenInit /\ [][GenNext]_vars

(***************************************************************************)
(* estimate_strength on its own: called twice on one config, before or     *)
(* after a password is generated for it and calls of the limiter are made. *)
(***************************************************************************)
StrengthConfigs ==
    [length : 0..MaxStrengthLen, use_lowercase : BOOLEAN, use_uppercase : BOOLEAN,
     use_digits : BOOLEAN, use_symbols : BOOLEAN, exclude_ambiguous : BOOLEAN]

StrengthInit ==
    /\ clock = 0
    /\ environment = Env(SmallLengths, 1)
    /\ config = from_env(environment).val
    /\ parse = NoParse
    /\ requests = <<>>
    /\ lock = NoHolder
    /\ task = [h \in Slots |-> Idle]
    /\ admitted = [k \in ChatIds |-> <<>>]
    /\ called = {}
    /\ delivered = [k \in ChatIds |-> <<>>]
    /\ call = NoCall
    /\ \E cfg \in StrengthConfigs : gen = [NoGen EXCEPT !.pc = "start", !.cfg = cfg]

\* let strength = estimate_strength(&config)
Estimate ==
    /\ Len(gen.strength) < 2
    /\ gen' = [gen EXCEPT !.strength = Append(@, estimate_strength(gen.cfg))]
    /\ UNCHANGED <<clock, config, requests, lock, task, admitted, called, delivered, call,
                 environment, parse>>

\* generate_password on the same config, the random source yielding one word
StrengthGenerate ==
    /\ gen.pc = "start"
    /\ \E w \in RngWords :
          LET rng == [i \in 1..RngNeed(gen.cfg.length) |-> w]
          IN gen' = [gen EXCEPT !.pc = "done", !.rng = rng,
                                !.result = generate_password(gen.cfg, rng),
                                !.draws = generate_password_run(gen.cfg, rng).draws]
    /\ UNCHANGED <<clock, config, requests, lock, task, admitted, called, delivered, call,
                 environment, parse>>

\* a call of the limiter for the one user, while none was made yet
StrengthLimiterCall ==
    /\ call.result = "none"
    /\ \E k \in UserIds : LimiterCall(k)

StrengthNext ==
    \/ Estimate
    \/ StrengthGenerate
    \/ StrengthLimiterCall

SpecStrength == StrengthInit /\ [][StrengthNext]_vars

(***************************************************************************)
(* The length bounds of the handlers: the bot under two configurations,    *)
(* with /pass commands and buttons whose lengths lie on, below and above   *)
(* the bounds.                                                             *)
(***************************************************************************)
WideLengths == [min |-> <<"1","7">>, def |-> <<"1","8">>, max |-> <<"2","0">>]
BoundsLimit == 2
BoundsEnvs == {Env(le, BoundsLimit) : le \in {SmallLengths, WideLengths}}

\* /pass with one length, in the private chat
BoundsArgs ==
    {<<>>, <<"0">>, <<"1">>, <<"5">>, <<"6">>,
     <<"1","6">>, <<"1","7">>, <<"2","0">>, <<"2","1">>}

BoundsInit == InitWith(BoundsEnvs)

BoundsNext ==
    \/ \E h \in Slots, user \in UserIds, args \in BoundsArgs : handle_password(h, user, args)
    \/ \E h \in Slots, user \in UserIds, data \in PassButtons : handle_callback(h, user, data)
    \/ \E h \in Slots : Admit(h)
    \/ \E h \in Slots : Send(h, TRUE)

SpecBounds == BoundsInit /\ [][BoundsNext]_vars

(***************************************************************************)
(* parse_password_args on its own: every sequence of up to MaxTokens       *)
(* tokens, typed with one or two spaces between them.                      *)
(***************************************************************************)
tok_zero == <<"0">>
tok_twelve == <<"1","2">>
tok_plus_seven == <<"+","7">>
tok_minus_five == <<"-","5">>
tok_word == <<"a","b","c">>

ParseTokens ==
    {opt_symbols, opt_no_symbols, opt_digits, opt_no_digits, opt_uppercase,
     opt_no_uppercase, opt_lowercase, opt_no_lowercase, opt_no_ambiguous,
     tok_zero, tok_twelve, tok_plus_seven, tok_minus_five, tok_word, args_bogus}

ParseDefaults == {DefaultPasswordLength, DefaultPasswordLength \div 4}

\* the text of a command's arguments: token i after two spaces if i is even,
\* after one if it is odd, and a space at the end
RECURSIVE Typed(_, _)
Typed(tokens, i) ==
    IF i > Len(tokens) THEN <<" ">>
    ELSE (IF i % 2 = 0 THEN <<" ", " ">> ELSE <<" ">>)
         \o tokens[i] \o Typed(tokens, i + 1)

ParseInit ==
    /\ clock = 0
    /\ environment = Env(SmallLengths, 1)
    /\ config = from_env(environment).val
    /\ requests = <<>>
    /\ lock = NoHolder
    /\ task = [h \in Slots |-> Idle]
    /\ admitted = [k \in ChatIds |-> <<>>]
    /\ called = {}
    /\ delivered = [k \in ChatIds |-> <<>>]
    /\ call = NoCall
    /\ gen = NoGen
    /\ \E n \in 0..MaxTokens, d \in ParseDefaults :
          \E tokens \in [1..n -> ParseTokens] :
             parse = [NoParse EXCEPT !.pc = "start", !.tokens = tokens,
                                     !.default_length = d]

\* parse_password_args(args, default_length)
Parse ==
    /\ parse.pc = "start"
    /\ parse' = [parse EXCEPT !.pc = "done",
                     !.result = parse_password_args(Typed(parse.tokens, 1),
                                                    parse.default_length)]
    /\ UNCHANGED <<clock, config, requests, lock, task, admitted, called, delivered, call,
                   gen, environment>>

ParseNext == Parse

SpecParse == ParseInit /\ [][ParseNext]_vars

(***************************************************************************)
(* Config::from_env on its own: main loads the configuration from every    *)
(* environment of a bounded set.                                           *)
(***************************************************************************)
\* the numbers written in the environment: 0, 1 and the neighbours of the
\* three defaults
EnvNumbers ==
    {0, 1} \cup {d + i : d \in {DefaultMinPasswordLength, DefaultPasswordLength,
                                DefaultMaxPasswordLength},
                        i \in {-1, 0, 1}}
EnvValues == {Unset, tok_word} \cup {to_string(n) : n \in EnvNumbers}

ConfigEnvs ==
    [TELEGRAM_BOT_TOKEN : {Unset, <<>>, TokenValue},
     DEFAULT_PASSWORD_LENGTH : EnvValues,
     MAX_PASSWORD_LENGTH : EnvValues,
     MIN_PASSWORD_LENGTH : EnvValues,
     RATE_LIMIT_PER_MINUTE : {Unset, tok_zero}]

\* main before Config::from_env() has returned
NoConfig == Err("none", "none")

ConfigInit ==
    /\ clock = 0
    /\ environment \in ConfigEnvs
    /\ config = NoConfig
    /\ requests = <<>>
    /\ lock = NoHolder
    /\ task = [h \in Slots |-> Idle]
    /\ admitted = [k \in ChatIds |-> <<>>]
    /\ called = {}
    /\ delivered = [k \in ChatIds |-> <<>>]
    /\ call = NoCall
    /\ gen = NoGen
    /\ parse = NoParse

\* let config = Config::from_env(): here config holds the Result
LoadConfig ==
    /\ config = NoConfig
    /\ config' = from_env(environment)
    /\ UNCHANGED <<clock, requests, lock, task, admitted, called, delivered, call, gen,
                   environment, parse>>

ConfigNext == LoadConfig

SpecConfig == ConfigInit /\ [][ConfigNext]_vars

(***************************************************************************)
(* Properties of the rate limiter (SpecLimiter).                           *)
(***************************************************************************)
Limit == config.rate_limit_per_minute

\* C1: for every key, the calls admitted in the minute that ends now
\* (now - 60 s < t <= now) are never more than the limit, and a call is
\* admitted only if fewer than the limit timestamps were left after the prune,
\* so that with its own timestamp the key holds at most the limit.
C1_AdmittedWithinLimit ==
    /\ \A k \in ChatIds : Len(admitted[k]) <= Limit
    /\ call.result = "Ok" =>
          /\ Len(requests[call.key]) <= Limit
          /\ call.recent < Limit

\* C1 witness: a key that was admitted exactly the limit of times, at different
\* instants of one minute, and whose next call was rejected
C1_Witness ==
    /\ Limit >= 2
    /\ call.result = "Err"
    /\ Len(admitted[call.key]) = Limit
    /\ admitted[call.key][1] < admitted[call.key][Limit]

\* C3: a rejected call leaves `now` out of the stored sequence: what is stored
\* after it is a suffix of what was stored before it, and at any moment the
\* stored timestamps of the last minute are exactly the instants of the
\* admitted calls, so rejected calls never extend the time a key is blocked.
C3_RejectedCallNotRecorded ==
    /\ call.result = "Err" =>
          \E i \in 0..Len(call.before) :
             requests[call.key] = SubSeq(call.before, i + 1, Len(call.before))
    /\ \A k \in DOMAIN requests : InWindow(requests[k], clock) = admitted[k]

\* C3 witness: a call rejected later than the admitted call that blocks it,
\* after an earlier rejected call for the same key
C3_Witness ==
    /\ call.result = "Err"
    /\ call.prev[call.key] = "Err"
    /\ call.before # <<>>
    /\ call.now > call.before[1]
    /\ requests[call.key] = call.before

\* C4: a call is admitted exactly when fewer than the limit calls for its key
\* were admitted in the minute before it: the first `limit` calls of a fresh
\* key succeed, the next one inside the minute fails, and once the admitted
\* calls are more than a minute old the key is admitted again.
C4_LimitThenRecover ==
    call.result # "none" => (call.result = "Ok" <=> call.recent < Limit)

\* C4 witness: a key whose previous call was rejected is admitted again, more
\* than a minute after the call that had filled its limit
C4_Witness ==
    /\ Limit >= 1
    /\ call.result = "Ok"
    /\ call.prev[call.key] = "Err"
    /\ Len(call.before) = Limit
    /\ call.now > call.before[Limit] + Window

\* C5 (as the claim states it): the prune removes exactly the timestamps
\* strictly older than now - 60 s, so a timestamp equal to now - 60 s is kept.
C5_CutoffTimestampKept ==
    call.result # "none" =>
       LET kept == SelectSeq(call.before, LAMBDA t : t >= call.now - Window)
       IN requests[call.key] =
             IF call.result = "Ok" THEN Append(kept, call.now) ELSE kept

\* C6: a call for one key leaves the stored sequence of every other key as it
\* was, and its outcome is the outcome the same call would have in a limiter
\* that holds only its own key.
C6_KeysIndependent ==
    /\ [][\A k \in DOMAIN requests :
             k # call'.key => k \in DOMAIN requests' /\ requests'[k] = requests[k]]_vars
    /\ [](call.result # "none" =>
             call.result =
                check_rate_limit((call.key :> call.before), call.key, Limit, call.now).result)

\* C6 witness: a call is admitted for one key while another key, whose last call
\* was rejected, still holds its limit of timestamps of the last minute
C6_Witness ==
    /\ Limit >= 1
    /\ call.result = "Ok"
    /\ \E k \in DOMAIN requests :
          /\ k # call.key
          /\ call.prev[k] = "Err"
          /\ Len(admitted[k]) = Limit
          /\ requests[k] = admitted[k]

\* C7: the keys of the map are exactly the keys ever passed to
\* check_rate_limit; no key is ever removed.
C7_KeysNeverRemoved == DOMAIN requests = called

\* C7 witness: two keys whose calls were all rejected are in the map, each
\* with an empty sequence
C7_Witness ==
    /\ call.result = "Err"
    /\ requests[call.key] = <<>>
    /\ \E k \in DOMAIN requests :
          k # call.key /\ call.prev[k] = "Err" /\ requests[k] = <<>>

(***************************************************************************)
(* Properties of the handlers (Spec).                                      *)
(***************************************************************************)
\* the handlers between their check and their push
Pushing == {h \in Slots : task[h].pc = "push"}

\* C2: prune, length check and push are one critical section: at most one
\* handler is between its check and its push, it holds the lock and the key it
\* is about to push to holds fewer timestamps than the limit; and whatever the
\* interleaving of handle_password and handle_callback, the calls admitted for
\* a key in one minute are never more than the limit.
C2_CriticalSectionAtomic ==
    /\ Cardinality(Pushing) <= 1
    /\ \A h \in Pushing : lock = h /\ Len(requests[task[h].key]) < Limit
    /\ \A k \in ChatIds : Len(admitted[k]) <= Limit

\* C2 witness: a /pass handler and a button handler run at once on one key;
\* one was admitted, the other was rejected
C2_Witness ==
    \E h, g \in Slots :
       /\ task[h].kind = "pass" /\ task[h].result = "Ok" /\ task[h].pc = "send"
       /\ task[g].kind = "callback" /\ task[g].result = "Err"
       /\ task[g].key = task[h].key
       /\ task[g].now = task[h].now

\* C8: the limiter gates first: a handler has parsed, generated or holds a
\* password to send only if its check_rate_limit returned Ok; a handler whose
\* call returned Err has parsed nothing, generated nothing and sends only the
\* rate-limit reply.
C8_LimiterGatesFirst ==
    \A h \in Slots :
       /\ (task[h].parsed \/ task[h].generated \/ HasPassword(task[h].out))
             => task[h].result = "Ok"
       /\ task[h].result = "Err" =>
             /\ ~task[h].parsed /\ ~task[h].generated
             /\ \A i \in 1..Len(task[h].out) : task[h].out[i].kind = "rate_limited"

\* C8 witness: one handler was rejected and sends the rate-limit reply while
\* another one, admitted, holds a generated password
C8_Witness ==
    \E h, g \in Slots :
       /\ task[h].result = "Err" /\ task[h].pc = "send"
       /\ task[g].result = "Ok" /\ task[g].generated /\ HasPassword(task[g].out)

\* the passwords for chat c whose request was admitted in the minute that ends
\* now: those delivered, and those still to be sent
AdmittedDeliveries(c) ==
    SelectSeq(delivered[c], LAMBDA d : clock - Window < d.admitted_at /\ d.admitted_at <= clock)
AdmittedPending(c) ==
    {h \in Slots : /\ HasPassword(task[h].out)
                   /\ task[h].chat = c
                   /\ clock - Window < task[h].now /\ task[h].now <= clock}

\* C9 (as the claim states it): for every chat, the passwords sent to it in
\* any 60-second window, over both paths, are at most the limit.
C9_PasswordsSentWithinLimit ==
    \A c \in ChatIds : Len(delivered[c]) <= Limit

\* C9 (amended): for every chat, the passwords for it whose requests were
\* admitted in any 60-second window, over both paths, are at most the limit.
C9_PasswordsAdmittedWithinLimit ==
    \A c \in ChatIds : Len(AdmittedDeliveries(c)) + Cardinality(AdmittedPending(c)) <= Limit

\* C9 witness: a password of the /pass path was delivered to a chat and a
\* button press for the same chat in the same minute was rejected
C9_Witness ==
    \E h \in Slots, c \in ChatIds :
       /\ Limit >= 1
       /\ task[h].kind = "callback" /\ task[h].result = "Err" /\ task[h].chat = c
       /\ \E i \in 1..Len(delivered[c]) :
             /\ delivered[c][i].path = "pass"
             /\ delivered[c][i].admitted_at > clock - Window

(***************************************************************************)
(* Properties of the generator (SpecGen).                                  *)
(***************************************************************************)
\* the character classes a config enables
EnabledClasses(cfg) ==
    Cardinality({c \in {"lowercase", "uppercase", "digits", "symbols"} :
        \/ c = "lowercase" /\ cfg.use_lowercase
        \/ c = "uppercase" /\ cfg.use_uppercase
        \/ c = "digits" /\ cfg.use_digits
        \/ c = "symbols" /\ cfg.use_symbols})

\* C10: for every config with at least one class enabled and a length not
\* below the number of enabled classes, generate_password returns a password
\* of exactly `length` characters.
C10_ExactLength ==
    (/\ gen.pc = "done"
     /\ EnabledClasses(gen.cfg) >= 1
     /\ gen.cfg.length >= EnabledClasses(gen.cfg))
    => gen.result.ok /\ Len(gen.result.val) = gen.cfg.length

\* C10 witness: a password was generated for a config with several classes and
\* a length above their number
C10_Witness ==
    /\ gen.pc = "done"
    /\ EnabledClasses(gen.cfg) >= 2
    /\ gen.cfg.length > EnabledClasses(gen.cfg)
    /\ gen.result.ok
    /\ Len(gen.result.val) = gen.cfg.length

\* the class order of build_char_pool and required_chars
Classes == <<"lowercase", "uppercase", "digits", "symbols">>

ClassEnabled(cfg, c) ==
    CASE c = "lowercase" -> cfg.use_lowercase
      [] c = "uppercase" -> cfg.use_uppercase
      [] c = "digits" -> cfg.use_digits
      [] c = "symbols" -> cfg.use_symbols

\* the alphabet of class c as the config filters it, written out: l and o leave
\* the lowercase letters, O and I the uppercase letters, 0 and 1 the digits;
\* the symbols are never filtered
ClassAlphabet(cfg, c) ==
    CASE c = "lowercase" ->
            IF cfg.exclude_ambiguous
            THEN SelectSeq(lowercase, LAMBDA x : x \notin {"l", "o"}) ELSE lowercase
      [] c = "uppercase" ->
            IF cfg.exclude_ambiguous
            THEN SelectSeq(uppercase, LAMBDA x : x \notin {"O", "I"}) ELSE uppercase
      [] c = "digits" ->
            IF cfg.exclude_ambiguous
            THEN SelectSeq(digits, LAMBDA x : x \notin {"0", "1"}) ELSE digits
      [] c = "symbols" -> symbols

\* the config of the generator run is valid: a class is enabled and the
\* length is at least the number of enabled classes
GenValid ==
    EnabledClasses(gen.cfg) >= 1 /\ gen.cfg.length >= EnabledClasses(gen.cfg)

\* C11: for every valid config and every enabled class, whatever the random
\* words and the shuffle, the password holds at least one character of that
\* class's filtered alphabet.
C11_EveryClassPresent ==
    (gen.pc = "done" /\ GenValid) =>
       /\ gen.result.ok
       /\ \A n \in 1..Len(Classes) :
             ClassEnabled(gen.cfg, Classes[n]) =>
                \E i \in 1..Len(gen.result.val) :
                   gen.result.val[i] \in Range(ClassAlphabet(gen.cfg, Classes[n]))

\* C11 witness: all four classes in a password of four characters, after a
\* shuffle that moved characters (the random words are not all zero)
C11_Witness ==
    /\ gen.pc = "done"
    /\ EnabledClasses(gen.cfg) = 4
    /\ gen.cfg.length = 4
    /\ gen.result.ok
    /\ \E i \in 1..Len(gen.rng) : gen.rng[i] # 0
    /\ gen.result.val[1] \notin Range(lowercase)

\* C12: with exclude_ambiguous set, for every combination of classes and every
\* random outcome, the password holds none of 0 O o 1 l I: the pool and every
\* required group are free of them, and every character of a password is a
\* character of the pool.
C12_NoAmbiguousCharacters ==
    LET six == {"0", "O", "o", "1", "l", "I"}
        groups == required_chars(gen.cfg)
    IN /\ gen.cfg.exclude_ambiguous =>
             /\ Range(build_char_pool(gen.cfg)) \cap six = {}
             /\ \A n \in 1..Len(groups) : Range(groups[n]) \cap six = {}
       /\ (gen.pc = "done" /\ gen.result.ok) =>
             /\ Range(gen.result.val) \subseteq Range(build_char_pool(gen.cfg))
             /\ gen.cfg.exclude_ambiguous => Range(gen.result.val) \cap six = {}

\* C12 witness: a password with digits and symbols among its classes was
\* generated with exclude_ambiguous set
C12_Witness ==
    /\ gen.pc = "done"
    /\ gen.cfg.exclude_ambiguous
    /\ gen.cfg.use_digits /\ gen.cfg.use_symbols /\ gen.cfg.use_lowercase
    /\ gen.result.ok
    /\ \E i \in 1..Len(gen.result.val) : gen.result.val[i] \in Range(digits)

\* the alphabets of the enabled classes, in class order
RECURSIVE EnabledAlphabets(_, _)
EnabledAlphabets(cfg, n) ==
    IF n > Len(Classes) THEN <<>>
    ELSE (IF ClassEnabled(cfg, Classes[n]) THEN <<ClassAlphabet(cfg, Classes[n])>> ELSE <<>>)
         \o EnabledAlphabets(cfg, n + 1)

RECURSIVE Flatten(_)
Flatten(ss) == IF ss = <<>> THEN <<>> ELSE Head(ss) \o Flatten(Tail(ss))

\* C17: build_char_pool is the concatenation, in the order lowercase,
\* uppercase, digits, symbols, of the alphabets of the enabled classes only,
\* the six ambiguous characters removed from letters and digits when
\* exclude_ambiguous is set and the 24 symbols never filtered; its size is 86
\* with all classes unfiltered and 80 with all classes filtered.
C17_PoolIsConcatenation ==
    LET pool == build_char_pool(gen.cfg)
    IN /\ pool = Flatten(EnabledAlphabets(gen.cfg, 1))
       /\ Len(symbols) = 24
       /\ gen.cfg.use_symbols => SubSeq(pool, Len(pool) - 23, Len(pool)) = symbols
       /\ EnabledClasses(gen.cfg) = 4 =>
             Len(pool) = IF gen.cfg.exclude_ambiguous THEN 80 ELSE 86
       /\ \A n \in 1..Len(Classes) :
             ~ClassEnabled(gen.cfg, Classes[n]) =>
                Range(pool) \cap Range(ClassAlphabet(gen.cfg, Classes[n])) = {}

\* C17 witness: a generation ran on the pool of all four classes, filtered
C17_Witness ==
    /\ gen.pc = "done"
    /\ gen.result.ok
    /\ EnabledClasses(gen.cfg) = 4
    /\ gen.cfg.exclude_ambiguous
    /\ Len(build_char_pool(gen.cfg)) = 80

\* C18: required_chars is one group per enabled class, in class order, each
\* the filtered alphabet of its class and non-empty, the symbols verbatim; the
\* number of groups is the number of enabled classes.
C18_OneGroupPerClass ==
    LET groups == required_chars(gen.cfg)
    IN /\ groups = EnabledAlphabets(gen.cfg, 1)
       /\ Len(groups) = EnabledClasses(gen.cfg)
       /\ \A n \in 1..Len(groups) : groups[n] # <<>>
       /\ gen.cfg.use_symbols => groups[Len(groups)] = symbols

\* C18 witness: a generation ran with three groups, one class disabled, the
\* others filtered and the symbols among them
C18_Witness ==
    /\ gen.pc = "done"
    /\ gen.result.ok
    /\ gen.cfg.exclude_ambiguous /\ gen.cfg.use_symbols /\ ~gen.cfg.use_uppercase
    /\ Len(required_chars(gen.cfg)) = 3

\* the messages of the errors generate_password returns
msg_zero_length == "Password length must be greater than 0"
msg_no_class == "At least one character type must be enabled"
msg_too_short == "too short for the required character types"

C14_TooShortWheneverBelowGroups ==
    gen.pc = "done" =>
       /\ gen.cfg.length < Len(required_chars(gen.cfg)) =>
             ~gen.result.ok /\ gen.result.msg = msg_too_short /\ gen.draws = 0
       /\ gen.cfg.length >= Len(required_chars(gen.cfg)) =>
             (gen.result.ok \/ gen.result.msg # msg_too_short)

\* C14 (amended): with a length of at least 1 that is smaller than the number
\* of enabled classes, the error PasswordGeneration("... too short for the
\* required character types ...") is returned and nothing is drawn; with a
\* length equal or greater it is not returned; length 0 is rejected before, by
\* validate.
C14_TooShortForClasses ==
    gen.pc = "done" =>
       /\ (1 <= gen.cfg.length /\ gen.cfg.length < EnabledClasses(gen.cfg)) =>
             /\ ~gen.result.ok
             /\ gen.result.kind = "PasswordGeneration"
             /\ gen.result.msg = msg_too_short
             /\ gen.draws = 0
       /\ gen.cfg.length >= EnabledClasses(gen.cfg) =>
             (gen.result.ok \/ gen.result.msg # msg_too_short)
       /\ gen.cfg.length = 0 => (~gen.result.ok /\ gen.result.msg = msg_zero_length)
       /\ gen.result.ok => gen.draws = 2 * gen.cfg.length - 1

\* C14 witness: length 3 with all four classes was rejected as too short
C14_Witness ==
    /\ gen.pc = "done"
    /\ gen.cfg.length = 3
    /\ EnabledClasses(gen.cfg) = 4
    /\ ~gen.result.ok
    /\ gen.result.msg = msg_too_short
    /\ gen.draws = 0

(***************************************************************************)
(* Properties of the strength estimate (SpecStrength).                     *)
(***************************************************************************)
\* x < y, for numbers written as little-endian limbs without leading zeros
BigLess(x, y) ==
    \/ Len(x) < Len(y)
    \/ /\ Len(x) = Len(y)
       /\ \E i \in 1..Len(x) :
             x[i] < y[i] /\ \A j \in (i + 1)..Len(x) : x[j] = y[j]

\* 2 ^ k as limbs
TwoTo(k) ==
    [i \in 1..(k \div LimbBits + 1) |->
        IF i = k \div LimbBits + 1 THEN 2 ^ (k % LimbBits) ELSE 0]

\* pool_size ^ length of the config under estimate, and its pool size
PoolSize == Len(build_char_pool(gen.cfg))
Combinations == Pow(PoolSize, gen.cfg.length)

\* C15: estimate_strength is Weak iff the pool is empty or pool_size^length <
\* 2^50 (entropy < 50), Medium iff 2^50 <= pool_size^length < 2^80, Strong iff
\* pool_size^length >= 2^80; all four classes with length 20 (pool 86) is
\* Strong, lowercase only with length 6 (pool 26) is Weak.
C15_StrengthThresholds ==
    \A i \in 1..Len(gen.strength) :
       LET st == gen.strength[i]
       IN /\ st \in {"Weak", "Medium", "Strong"}
          /\ st = "Weak" <=> (PoolSize = 0 \/ BigLess(Combinations, TwoTo(50)))
          /\ st = "Strong" <=> (PoolSize > 0 /\ ~BigLess(Combinations, TwoTo(80)))
          /\ (PoolSize = 86 /\ gen.cfg.length = 20) => st = "Strong"
          /\ (PoolSize = 26 /\ gen.cfg.length = 6) => st = "Weak"

\* C15 witness: an entropy of exactly 50 bits (pool 32, length 10) was
\* estimated, as Medium
C15_Witness ==
    /\ Len(gen.strength) >= 1
    /\ PoolSize = 32
    /\ gen.cfg.length = 10
    /\ Combinations = TwoTo(50)
    /\ gen.strength[1] = "Medium"

Outcome(h, rng) ==
    Process(config, task[h].kind, task[h].chat, task[h].text, rng)

\* the messages of out with the password of a password message left out
Redacted(out) ==
    [i \in 1..Len(out) |->
        IF out[i].kind = "password"
        THEN [out[i] EXCEPT !.text = [emoji |-> out[i].text.emoji,
                                      metadata |-> out[i].text.metadata]]
        ELSE out[i]]

\* the passwords of the password messages of out
Passwords(out) ==
    {out[i].text.password : i \in {n \in 1..Len(out) : out[n].kind = "password"}}

\* C19: metadata, log lines and error messages are secret-free: for an
\* admitted request, two runs that differ only in the random words, hence in
\* the password, send the same metadata and the same error messages and log
\* the same lines.
C19_SecretFreeMetadataAndLogs ==
    \A h \in Slots :
       task[h].pc = "push" =>
          LET run == [r \in BotRng(config) |->
                         [log |-> Outcome(h, r).log, sent |-> Redacted(Outcome(h, r).out)]]
          IN \A r1, r2 \in BotRng(config) : run[r1] = run[r2]

\* C19 witness: an admitted request for which two random streams give two
\* different passwords and a log line is written
C19_Witness ==
    \E h \in Slots :
       /\ task[h].pc = "push"
       /\ \E r1, r2 \in BotRng(config) :
             /\ Passwords(Outcome(h, r1).out) # {}
             /\ Passwords(Outcome(h, r1).out) # Passwords(Outcome(h, r2).out)
             /\ Outcome(h, r1).log # <<>>

\* C20 (as the claim states it): on the admitted and on the rejected path the
\* lock of the RateLimiter is released before any message is sent, so no
\* handler waits for a send while it holds the lock.
C20_LockReleasedBeforeSend ==
    \A h \in Slots : task[h].pc = "send" => lock # h

(***************************************************************************)
(* Properties of the sampling of generate_password (SpecGen).              *)
(***************************************************************************)
\* how many times c occurs in s
Count(s, c) == Cardinality({i \in 1..Len(s) : s[i] = c})

\* t holds the characters of s, each as many times, in some order
IsArrangement(t, s) ==
    /\ Len(t) = Len(s)
    /\ \A c \in Range(s) \cup Range(t) : Count(t, c) = Count(s, c)

RECURSIVE Fact(_)
Fact(n) == IF n = 0 THEN 1 ELSE n * Fact(n - 1)

RECURSIVE RepeatsProduct(_, _)
RepeatsProduct(s, cs) ==
    IF cs = {} THEN 1
    ELSE LET c == CHOOSE x \in cs : TRUE
         IN Fact(Count(s, c)) * RepeatsProduct(s, cs \ {c})

\* the number of different arrangements of s
ArrangementCount(s) == Fact(Len(s)) \div RepeatsProduct(s, Range(s))

\* every sequence of indices gen_range(0..i+1) can return to the shuffle of n
\* elements, i going from n down to 2
IndexChoices ==
    [n \in 0..MaxLen |->
        {js \in [1..(IF n = 0 THEN 0 ELSE n - 1) -> 1..n] :
            \A k \in DOMAIN js : js[k] <= n - k + 1}]

\* C21: generate_password draws one character from each required group in
\* group order, then length - required_count characters from the full pool
\* (repetition allowed), then permutes the buffer: the password is an
\* arrangement of the drawn buffer, each of its characters is in the pool, and
\* the shuffle can return every arrangement of the buffer, so the guaranteed
\* characters are not confined to the first positions.  (The arrangements of
\* a buffer are counted once per buffer, in the state whose shuffle drew only
\* zeros.)
C21_DrawThenShuffle ==
    (gen.pc = "done" /\ gen.result.ok) =>
       LET groups == required_chars(gen.cfg)
           pool == build_char_pool(gen.cfg)
           buffer == password_chars(gen.cfg, gen.rng)
           n == gen.cfg.length
           outcomes == {SwapDown(buffer, n, js) : js \in IndexChoices[n]}
       IN /\ Len(buffer) = n
          /\ \A k \in 1..n :
                buffer[k] = IF k <= Len(groups)
                            THEN groups[k][gen_range(gen.rng[k], Len(groups[k]))]
                            ELSE pool[gen_range(gen.rng[k], Len(pool))]
          /\ gen.draws = n + (n - 1)
          /\ IsArrangement(gen.result.val, buffer)
          /\ Range(gen.result.val) \subseteq Range(pool)
          /\ (\A k \in (n + 1)..Len(gen.rng) : gen.rng[k] = 0) =>
                /\ \A t \in outcomes : IsArrangement(t, buffer)
                /\ Cardinality(outcomes) = ArrangementCount(buffer)

\* C21 witness: all four classes and one draw from the pool, which repeated
\* the character drawn from the first group; after the shuffle the first
\* character of the password is not of the first group
C21_Witness ==
    /\ gen.pc = "done"
    /\ gen.result.ok
    /\ EnabledClasses(gen.cfg) = 4
    /\ gen.cfg.length = 5
    /\ password_chars(gen.cfg, gen.rng)[5] = password_chars(gen.cfg, gen.rng)[1]
    /\ gen.result.val # password_chars(gen.cfg, gen.rng)
    /\ gen.result.val[1] \notin Range(lowercase)

\* the message of the error generate_password returns for an empty pool
msg_empty_pool == "Character pool is empty"

\* C22: for every config that passes validate (length >= 1 and a class
\* enabled), with or without exclude_ambiguous, build_char_pool is non-empty,
\* so generate_password never returns the empty-pool error.
C22_PoolNonEmptyAfterValidation ==
    /\ validate(gen.cfg).ok =>
          /\ gen.cfg.length >= 1 /\ EnabledClasses(gen.cfg) >= 1
          /\ build_char_pool(gen.cfg) # <<>>
    /\ gen.pc = "done" => (gen.result.ok \/ gen.result.msg # msg_empty_pool)

\* C22 witness: a password was generated from the smallest pool a valid
\* config has, the eight digits left by exclude_ambiguous
C22_Witness ==
    /\ gen.pc = "done"
    /\ validate(gen.cfg).ok
    /\ gen.cfg.exclude_ambiguous
    /\ EnabledClasses(gen.cfg) = 1 /\ gen.cfg.use_digits
    /\ Len(build_char_pool(gen.cfg)) = 8
    /\ gen.result.ok

(***************************************************************************)
(* Properties of the length bounds (SpecBounds).                           *)
(***************************************************************************)
\* the length of h's request lies outside the configured bounds
OutOfBounds(h) ==
    /\ task[h].length # <<>>
    /\ \/ task[h].length[1] < config.min_password_length
       \/ task[h].length[1] > config.max_password_length

\* C23: on the /pass path and on the button path, generate_password is called
\* and a password is sent only for a length with min_password_length <=
\* length <= max_password_length; a length outside the bounds gets one error
\* reply and no call of generate_password.
C23_GeneratesOnlyWithinBounds ==
    \A h \in Slots :
       /\ (task[h].generated \/ HasPassword(task[h].out)) =>
             /\ task[h].length # <<>>
             /\ config.min_password_length <= task[h].length[1]
             /\ task[h].length[1] <= config.max_password_length
       /\ OutOfBounds(h) =>
             /\ ~task[h].generated
             /\ Len(task[h].out) = 1
             /\ task[h].out[1].kind \in
                   IF task[h].kind = "pass" THEN {"too_short", "too_long"}
                   ELSE {"invalid_length"}
             /\ task[h].kind = "pass" =>
                   (task[h].out[1].kind = "too_short"
                       <=> task[h].length[1] < config.min_password_length)

\* C23 witness: a /pass with a length one above the maximum and a button with
\* a length below the minimum are both answered with an error, while the
\* limiter has admitted both
C23_Witness ==
    \E h, g \in Slots :
       /\ task[h].kind = "pass" /\ task[h].pc = "send" /\ task[h].result = "Ok"
       /\ task[h].length = <<config.max_password_length + 1>>
       /\ task[h].out[1].kind = "too_long"
       /\ task[g].kind = "callback" /\ task[g].pc = "send" /\ task[g].result = "Ok"
       /\ OutOfBounds(g) /\ task[g].length[1] < config.min_password_length
       /\ task[g].out[1].kind = "invalid_length"

(***************************************************************************)
(* Properties of parse_password_args (SpecParse).                          *)
(***************************************************************************)
\* the recognised flags: the field each one sets, and to what
FlagField ==
    (opt_symbols :> "use_symbols") @@ (opt_no_symbols :> "use_symbols")
    @@ (opt_digits :> "use_digits") @@ (opt_no_digits :> "use_digits")
    @@ (opt_uppercase :> "use_uppercase") @@ (opt_no_uppercase :> "use_uppercase")
    @@ (opt_lowercase :> "use_lowercase") @@ (opt_no_lowercase :> "use_lowercase")
    @@ (opt_no_ambiguous :> "exclude_ambiguous")
FlagValue ==
    (opt_symbols :> TRUE) @@ (opt_no_symbols :> FALSE)
    @@ (opt_digits :> TRUE) @@ (opt_no_digits :> FALSE)
    @@ (opt_uppercase :> TRUE) @@ (opt_no_uppercase :> FALSE)
    @@ (opt_lowercase :> TRUE) @@ (opt_no_lowercase :> FALSE)
    @@ (opt_no_ambiguous :> TRUE)

\* the tokens parse::<usize> accepts, with their values
NumericValue == (tok_zero :> 0) @@ (tok_twelve :> 12) @@ (tok_plus_seven :> 7)

\* the positions of the tokens that are neither a recognised flag nor a number
BadPositions(tokens) ==
    {i \in 1..Len(tokens) :
        tokens[i] \notin DOMAIN FlagField /\ tokens[i] \notin DOMAIN NumericValue}

\* the last position of tokens that satisfies Sel, or 0
LastPosition(tokens, Sel(_)) ==
    LET ps == {i \in 1..Len(tokens) : Sel(tokens[i])}
    IN IF ps = {} THEN 0 ELSE CHOOSE i \in ps : \A j \in ps : j <= i

\* the value of a flag field after all tokens: that of the last token for the
\* field, or the default
FieldAfter(tokens, field, default) ==
    LET last == LastPosition(tokens,
                    LAMBDA t : t \in DOMAIN FlagField /\ FlagField[t] = field)
    IN IF last = 0 THEN default ELSE FlagValue[tokens[last]]

LengthAfter(tokens, default) ==
    LET last == LastPosition(tokens, LAMBDA t : t \in DOMAIN NumericValue)
    IN IF last = 0 THEN default ELSE NumericValue[tokens[last]]

\* C24: parse_password_args goes through the tokens from left to right,
\* starting from the default config with length = default_length: with only
\* recognised flags and numbers, each field has the value of the last token
\* for it (the default if there is none) and the length is the last number;
\* the first unknown `--` option or non-numeric token makes the parse return
\* an error that names it, and no config.
C24_ParseLeftToRight ==
    parse.pc = "done" =>
       LET tokens == parse.tokens
           bad == BadPositions(tokens)
           r == parse.result
       IN IF bad = {}
          THEN /\ r.ok
               /\ r.val = [length |-> LengthAfter(tokens, parse.default_length),
                           use_lowercase |-> FieldAfter(tokens, "use_lowercase", TRUE),
                           use_uppercase |-> FieldAfter(tokens, "use_uppercase", TRUE),
                           use_digits |-> FieldAfter(tokens, "use_digits", TRUE),
                           use_symbols |-> FieldAfter(tokens, "use_symbols", TRUE),
                           exclude_ambiguous |->
                              FieldAfter(tokens, "exclude_ambiguous", FALSE)]
          ELSE LET first == CHOOSE i \in bad : \A j \in bad : i <= j
               IN /\ ~r.ok
                  /\ "val" \notin DOMAIN r
                  /\ r.kind = "PasswordGeneration"
                  /\ r.msg = <<IF starts_with(tokens[first], <<"-", "-">>)
                               THEN "Unknown option: " ELSE "Invalid length: ",
                               tokens[first]>>

\* C24 witness: three tokens were parsed, a flag, the opposite flag and a
\* number: the later flag and the number are in the config
C24_Witness ==
    /\ parse.pc = "done"
    /\ parse.tokens = <<opt_no_digits, opt_digits, tok_twelve>>
    /\ parse.result.ok
    /\ parse.result.val.use_digits
    /\ parse.result.val.length = 12
    /\ parse.default_length # 12

(***************************************************************************)
(* Properties of Config::from_env (SpecConfig).                            *)
(***************************************************************************)
\* the number a variable of the environment stands for: the number it spells,
\* or the default when it is unset or spells none
Effective(v, default) ==
    IF \E n \in EnvNumbers : to_string(n) = v
    THEN CHOOSE n \in EnvNumbers : to_string(n) = v
    ELSE default

EffectiveMin == Effective(environment.MIN_PASSWORD_LENGTH, 8)
EffectiveDefault == Effective(environment.DEFAULT_PASSWORD_LENGTH, 16)
EffectiveMax == Effective(environment.MAX_PASSWORD_LENGTH, 64)

\* C25: every Config that from_env returns has 1 <= min_password_length <=
\* default_password_length <= max_password_length, and an environment whose
\* values break this order gets a Config error and no Config.
C25_ConfigLengthsOrdered ==
    config # NoConfig =>
       /\ config.ok =>
             /\ 1 <= config.val.min_password_length
             /\ config.val.min_password_length <= config.val.default_password_length
             /\ config.val.default_password_length <= config.val.max_password_length
             /\ config.val.min_password_length = EffectiveMin
             /\ config.val.default_password_length = EffectiveDefault
             /\ config.val.max_password_length = EffectiveMax
       /\ ~(1 <= EffectiveMin /\ EffectiveMin <= EffectiveDefault
              /\ EffectiveDefault <= EffectiveMax) =>
             /\ ~config.ok
             /\ config.kind = "Config"
             /\ "val" \notin DOMAIN config

\* C25 witness: a Config was returned whose three lengths are equal, the
\* minimum being the default of an unset variable
C25_Witness ==
    /\ config # NoConfig
    /\ config.ok
    /\ environment.MIN_PASSWORD_LENGTH = Unset
    /\ environment.DEFAULT_PASSWORD_LENGTH # Unset
    /\ config.val.min_password_length = config.val.default_password_length
    /\ config.val.default_password_length = config.val.max_password_length

(***************************************************************************)
(* The stored sequences of the rate limiter (SpecLimiter).                 *)
(***************************************************************************)
NonDecreasing(ts) == \A i, j \in 1..Len(ts) : i < j => ts[i] <= ts[j]

\* C26: under one limit and a monotonic clock, the timestamps stored for every
\* key are in non-decreasing order and at most the limit in number, and right
\* after a call for a key every timestamp stored for that key lies in the
\* 60 seconds that end at the call (now - 60 s < t <= now).
C26_StoredSortedBoundedRecent ==
    /\ \A k \in DOMAIN requests :
          NonDecreasing(requests[k]) /\ Len(requests[k]) <= Limit
    /\ call.result # "none" =>
          \A i \in 1..Len(requests[call.key]) :
             /\ call.now - Window < requests[call.key][i]
             /\ requests[call.key][i] <= call.now

\* C26 witness: a call was admitted after its key's oldest timestamp was
\* pruned, the key now holds two timestamps of different instants, and another
\* key, not called since, holds a timestamp more than a minute old
C26_Witness ==
    /\ call.result = "Ok"
    /\ Len(requests[call.key]) = 2
    /\ requests[call.key][1] < requests[call.key][2]
    /\ call.before # <<>> /\ call.before[1] < requests[call.key][1]
    /\ \E k \in DOMAIN requests :
          k # call.key /\ requests[k] # <<>> /\ requests[k][1] < clock - Window

(***************************************************************************)
(* The quota of requests that produce no password (Spec).                  *)
(***************************************************************************)
\* the replies of a handler that was admitted and produced no password
FailureReplies ==
    {"parse_error", "too_short", "too_long", "invalid_length", "config_error",
     "generate_error"}

\* the admitted handlers of key k that are sending an error reply
AdmittedFailures(k) ==
    {h \in Slots : /\ task[h].pc = "send" /\ task[h].result = "Ok" /\ task[h].key = k
                   /\ task[h].out[1].kind \in FailureReplies}

\* C27: an admitted request uses one unit of its key's quota also when it
\* produces no password: when it fails at parsing, at the length bounds, at
\* validation or at generation, the timestamp pushed at admission is in the
\* limiter for the following minute, counts for the checks of later requests,
\* and no step of the handler takes it out again.
C27_FailedRequestsUseQuota ==
    /\ [](\A h \in Slots :
             (task[h].pc = "send" /\ task[h].result = "Ok"
                 /\ task[h].now > clock - Window) =>
                /\ task[h].now \in Range(requests[task[h].key])
                /\ task[h].now \in Range(admitted[task[h].key]))
    /\ [](\A k \in DOMAIN requests :
             /\ InWindow(requests[k], clock) = admitted[k]
             /\ Len(admitted[k]) <= Limit)
    /\ [][\A h \in Slots :
             (task[h].pc = "send" /\ task'[h] # task[h]) => requests' = requests]_vars

\* C27 witness: a request is rejected although no password went to its chat
\* and none is pending: the quota of its key was used by a request admitted
\* in the same minute that failed at generation
C27_Witness ==
    \E g \in Slots :
       /\ task[g].result = "Err" /\ task[g].pc = "send"
       /\ Limit = 1
       /\ delivered[task[g].chat] = <<>>
       /\ \A h \in Slots : ~HasPassword(task[h].out)
       /\ \E h \in AdmittedFailures(task[g].key) :
             /\ task[h].out[1].kind = "generate_error"
             /\ requests[task[g].key] = <<task[h].now>>
             /\ task[g].now < task[h].now + Window

(***************************************************************************)
(* The handlers that generate nothing (Spec).                              *)
(***************************************************************************)
\* slot h runs /start, /help, or a button that generates no password
NonGenerating(h) == task[h].kind \in {"start", "help", "callback_other"}

\* C28: /start, /help and the callbacks that generate no password (show_help,
\* pass_custom, unknown data, no data) never call the rate limiter: they are
\* never rejected, never take its lock, send only their own messages, and no
\* step of theirs changes the limiter.
C28_NonGeneratingBypassLimiter ==
    /\ [](\A h \in Slots :
             NonGenerating(h) =>
                /\ task[h].result = "none"
                /\ lock # h
                /\ \A i \in 1..Len(task[h].out) :
                      task[h].out[i].kind \in {"welcome", "help", "prompt", "ack"})
    /\ [][\A h \in Slots :
             (task'[h] # task[h] /\ (NonGenerating(h) \/ NonGenerating(h)')) =>
                /\ requests' = requests
                /\ lock' = lock
                /\ called' = called
                /\ admitted' = admitted]_vars

\* C28 witness: the help button is answered for a user whose key is at its
\* limit, while a /pass of the same user is being rejected and holds the lock
C28_Witness ==
    \E h, g \in Slots :
       /\ task[h].kind = "callback_other" /\ task[h].pc = "send"
       /\ task[h].out[Len(task[h].out)].kind = "help"
       /\ task[g].kind = "pass" /\ task[g].result = "Err" /\ task[g].chat = task[h].chat
       /\ lock = g
       /\ Limit >= 1
       /\ Len(requests[task[h].chat]) = Limit

(***************************************************************************)
(* The shortest passwords and the two constructions of the alphabets       *)
(* (SpecGen).                                                              *)
(***************************************************************************)
\* how many characters of s belong to alphabet
CountIn(s, alphabet) == Cardinality({i \in 1..Len(s) : s[i] \in Range(alphabet)})

\* C29: when the length equals the number of required groups, the password
\* holds exactly one character of the filtered alphabet of each enabled class
\* (and none of a disabled class), and nothing is drawn from the pool: the
\* only draws are one per group and those of the shuffle.
C29_OnePerClassAtMinimumLength ==
    (/\ gen.pc = "done"
     /\ gen.cfg.length >= 1
     /\ gen.cfg.length = Len(required_chars(gen.cfg)))
    => /\ gen.result.ok
       /\ \A n \in 1..Len(Classes) :
             CountIn(gen.result.val, ClassAlphabet(gen.cfg, Classes[n]))
                = IF ClassEnabled(gen.cfg, Classes[n]) THEN 1 ELSE 0
       /\ FillCount(gen.cfg.length, Len(required_chars(gen.cfg))) = 0
       /\ \A k \in 1..gen.cfg.length :
             password_chars(gen.cfg, gen.rng)[k] \in Range(required_chars(gen.cfg)[k])
       /\ gen.draws = Len(required_chars(gen.cfg)) + (gen.cfg.length - 1)

\* C29 witness: three classes, filtered, and a password of three characters
\* that the shuffle has reordered
C29_Witness ==
    /\ gen.pc = "done"
    /\ gen.result.ok
    /\ gen.cfg.exclude_ambiguous
    /\ ~gen.cfg.use_symbols
    /\ EnabledClasses(gen.cfg) = 3
    /\ gen.cfg.length = 3
    /\ gen.result.val # password_chars(gen.cfg, gen.rng)
    /\ gen.result.val[1] \in Range(digits)

RECURSIVE SumLens(_)
SumLens(ss) == IF ss = <<>> THEN 0 ELSE Len(Head(ss)) + SumLens(Tail(ss))

\* C30: for every config, build_char_pool equals the concatenation, in order,
\* of the groups of required_chars: the two constructions agree, every
\* character of a required group is in the pool and the pool size is the sum
\* of the group sizes.
C30_PoolIsGroupsConcatenated ==
    LET pool == build_char_pool(gen.cfg)
        groups == required_chars(gen.cfg)
    IN /\ pool = Flatten(groups)
       /\ \A n \in 1..Len(groups) : Range(groups[n]) \subseteq Range(pool)
       /\ Len(pool) = SumLens(groups)
       /\ (gen.pc = "done" /\ gen.result.ok) =>
             \A k \in 1..Len(groups) :
                password_chars(gen.cfg, gen.rng)[k] \in Range(pool)

\* C30 witness: a password was generated from two groups, the eight filtered
\* digits and the 24 symbols, and a pool of 32 characters
C30_Witness ==
    /\ gen.pc = "done"
    /\ gen.result.ok
    /\ gen.cfg.exclude_ambiguous
    /\ Len(required_chars(gen.cfg)) = 2
    /\ Len(required_chars(gen.cfg)[1]) = 8
    /\ Len(required_chars(gen.cfg)[2]) = 24
    /\ Len(build_char_pool(gen.cfg)) = 32

====
